---- MODULE Spec2Model ----
(***************************************************************************)
(* Model of timetable_scheduler_improved.py: the greedy first-fit         *)
(* timetable scheduler (ImprovedScheduler) with its slot catalog, room     *)
(* classifier, constraint checker and assignment engine.                   *)
(*                                                                         *)
(* Representation choices:                                                 *)
(*   - a datetime.time is the number of minutes since midnight;            *)
(*   - duration_hours (a float: 1.5, 1.0, 2.0) is kept in tenths of an     *)
(*     hour (15, 10, 20);                                                  *)
(*   - a room_id is a sequence of one-character strings, so that           *)
(*     startswith('L') and 'LAB' in upper() are computed, not assumed;     *)
(*   - a two-level defaultdict d[a][b] is a function on the pairs <<a,b>>  *)
(*     that have been written; a missing key reads as the empty list;      *)
(*   - a student key (an f-string) is the tuple of its parts;              *)
(*   - a conflict string (an f-string) is the record of its fields.        *)
(***************************************************************************)
EXTENDS Integers, Sequences, FiniteSets, TLC

VARIABLES courses, rooms, big_rooms, regular_rooms, labs,
          schedule, faculty_schedule, room_schedule, student_schedule,
          course_daily_schedule, conflicts, conflict_reasons,
          sorted_courses, pc, ci, ti, session_num, si, ri, ret, call,
          exported

vars == <<courses, rooms, big_rooms, regular_rooms, labs,
          schedule, faculty_schedule, room_schedule, student_schedule,
          course_daily_schedule, conflicts, conflict_reasons,
          sorted_courses, pc, ci, ti, session_num, si, ri, ret, call,
          exported>>

(***************************************************************************)
(* Bounds of the model.                                                    *)
(***************************************************************************)
MaxCourses == 2
MaxRooms == 2

(***************************************************************************)
(* SessionType, TimeSlot                                                   *)
(***************************************************************************)
LECTURE == "Lecture"
TUTORIAL == "Tutorial"
PRACTICAL == "Practical"
SessionType == {LECTURE, TUTORIAL, PRACTICAL}

\* datetime.time(h, m), in minutes since midnight
time(h, m) == h * 60 + m

TimeSlot(day, start_time, end_time, duration_hours) ==
    [day |-> day, start_time |-> start_time, end_time |-> end_time,
     duration_hours |-> duration_hours]

\* TimeSlot.__eq__: day, start and end only
SlotEq(a, b) ==
    /\ a.day = b.day
    /\ a.start_time = b.start_time
    /\ a.end_time = b.end_time

\* `slot in list`, which Python decides with TimeSlot.__eq__
SlotIn(slot, list) == \E i \in 1..Len(list) : SlotEq(list[i], slot)

\* TimeSlot.overlaps
overlaps(self, other) ==
    IF self.day # other.day
    THEN FALSE
    ELSE self.start_time < other.end_time /\ other.start_time < self.end_time

(***************************************************************************)
(* Course                                                                  *)
(***************************************************************************)
\* Course.get_student_key; a section of None or '' is falsy
get_student_key(self) ==
    IF self.section # ""
    THEN <<self.branch, self.section, "Sem", self.semester>>
    ELSE <<self.branch, "Year", (self.semester + 1) \div 2>>

(***************************************************************************)
(* Slot catalog                                                            *)
(***************************************************************************)
days == <<"Monday", "Tuesday", "Wednesday", "Thursday", "Friday">>

\* Variant of DaySlots with a fault: the first 1.5h slot ends at 10:00.
DaySlots_ShortFirst(day) ==
    << TimeSlot(day, time(9, 0), time(10, 0), 15),
       TimeSlot(day, time(11, 0), time(12, 30), 15),
       TimeSlot(day, time(14, 0), time(15, 30), 15),
       TimeSlot(day, time(16, 0), time(17, 30), 15),
       TimeSlot(day, time(9, 0), time(10, 0), 10),
       TimeSlot(day, time(10, 30), time(11, 30), 10),
       TimeSlot(day, time(11, 30), time(12, 30), 10),
       TimeSlot(day, time(14, 0), time(15, 0), 10),
       TimeSlot(day, time(15, 30), time(16, 30), 10),
       TimeSlot(day, time(16, 30), time(17, 30), 10),
       TimeSlot(day, time(9, 0), time(11, 0), 20),
       TimeSlot(day, time(11, 0), time(13, 0), 20),
       TimeSlot(day, time(14, 0), time(16, 0), 20),
       TimeSlot(day, time(16, 0), time(18, 0), 20) >>

\* the 14 slots one iteration of the loop over days appends
DaySlots(day) ==
    << TimeSlot(day, time(9, 0), time(10, 30), 15),
       TimeSlot(day, time(11, 0), time(12, 30), 15),
       TimeSlot(day, time(14, 0), time(15, 30), 15),
       TimeSlot(day, time(16, 0), time(17, 30), 15),
       TimeSlot(day, time(9, 0), time(10, 0), 10),
       TimeSlot(day, time(10, 30), time(11, 30), 10),
       TimeSlot(day, time(11, 30), time(12, 30), 10),
       TimeSlot(day, time(14, 0), time(15, 0), 10),
       TimeSlot(day, time(15, 30), time(16, 30), 10),
       TimeSlot(day, time(16, 30), time(17, 30), 10),
       TimeSlot(day, time(9, 0), time(11, 0), 20),
       TimeSlot(day, time(11, 0), time(13, 0), 20),
       TimeSlot(day, time(14, 0), time(16, 0), 20),
       TimeSlot(day, time(16, 0), time(18, 0), 20) >>

RECURSIVE SlotsFrom(_)
SlotsFrom(d) ==
    IF d > Len(days) THEN <<>> ELSE DaySlots(days[d]) \o SlotsFrom(d + 1)

generate_time_slots == SlotsFrom(1)

time_slots == generate_time_slots

\* self.slots_by_duration[d]: the catalog slots of that duration, in
\* generation order
slots_by_duration(d) == SelectSeq(time_slots, LAMBDA s : s.duration_hours = d)

\* Variant of required with a fault: a tutorial is offered the 1.5h slots.
required_LongTutorial(session_type) ==
    CASE session_type = LECTURE -> 15
      [] session_type = TUTORIAL -> 15
      [] session_type = PRACTICAL -> 20

\* the dict `required` of _schedule_session
required(session_type) ==
    CASE session_type = LECTURE -> 15
      [] session_type = TUTORIAL -> 10
      [] session_type = PRACTICAL -> 20

(***************************************************************************)
(* Room classifier                                                         *)
(***************************************************************************)
\* str.upper(), on the letters the marker 'LAB' is made of
Upper(ch) ==
    CASE ch = "l" -> "L"
      [] ch = "a" -> "A"
      [] ch = "b" -> "B"
      [] OTHER -> ch

\* room_id.startswith('L')
StartsWithL(room_id) == Len(room_id) >= 1 /\ room_id[1] = "L"

\* 'LAB' in room_id.upper()
ContainsLAB(room_id) ==
    \E i \in 1..(Len(room_id) - 2) :
        /\ Upper(room_id[i]) = "L"
        /\ Upper(room_id[i + 1]) = "A"
        /\ Upper(room_id[i + 2]) = "B"

\* sorted(list, key=lambda r: -r.capacity): stable, descending capacity
RECURSIVE InsertByCapacity(_, _)
InsertByCapacity(r, sorted) ==
    IF sorted = <<>> THEN <<r>>
    ELSE IF -r.capacity < -Head(sorted).capacity
         THEN <<r>> \o sorted
         ELSE <<Head(sorted)>> \o InsertByCapacity(r, Tail(sorted))

RECURSIVE SortByCapacity(_)
SortByCapacity(list) ==
    IF list = <<>> THEN <<>>
    ELSE InsertByCapacity(list[Len(list)],
                          SortByCapacity(SubSeq(list, 1, Len(list) - 1)))

BigRooms(rs) == SortByCapacity(SelectSeq(rs, LAMBDA r : r.capacity >= 100))

RegularRooms(rs) ==
    SortByCapacity(SelectSeq(rs, LAMBDA r :
        r.capacity < 100 /\ ~StartsWithL(r.room_id)))

Labs(rs) ==
    SelectSeq(rs, LAMBDA r : StartsWithL(r.room_id) \/ ContainsLAB(r.room_id))

(***************************************************************************)
(* defaultdict and Counter                                                 *)
(***************************************************************************)
\* d[k] of a defaultdict(list): a key never written reads as []
Get(d, k) == IF k \in DOMAIN d THEN d[k] ELSE <<>>

\* Variant of Append2 with a fault: d[k] = [v]
Append2_Overwrite(d, k, v) ==
    [x \in (DOMAIN d) \cup {k} |-> IF x = k THEN <<v>> ELSE d[x]]

\* d[k].append(v)
Append2(d, k, v) ==
    [x \in (DOMAIN d) \cup {k} |-> IF x = k THEN Append(Get(d, k), v) ELSE d[x]]

\* counter[k] of a Counter: a key never written reads as 0
Count(counter, k) == IF k \in DOMAIN counter THEN counter[k] ELSE 0

\* counter[k] += 1
Incr(counter, k) ==
    [x \in (DOMAIN counter) \cup {k} |->
        IF x = k THEN Count(counter, k) + 1 ELSE counter[x]]

(***************************************************************************)
(* Basket detector                                                         *)
(***************************************************************************)
NoBasket == <<>>

\* a grouping key without the semester half
BasketKey_NoHalf(course) == <<course.semester, course.branch, "">>

BasketKey(course) == <<course.semester, course.branch, course.semester_half>>

\* the keys of elective_groups, in insertion order (first appearance)
RECURSIVE ElectiveKeys(_, _)
ElectiveKeys(cs, n) ==
    IF n = 0 THEN <<>>
    ELSE LET before == ElectiveKeys(cs, n - 1)
             key == BasketKey(cs[n])
         IN  IF cs[n].is_elective /\ \A i \in 1..Len(before) : before[i] # key
             THEN Append(before, key)
             ELSE before

\* the loop over elective_groups.items() from the k-th key on, with
\* basket_counter = counter: the courses with their basket fields set
RECURSIVE AssignBaskets(_, _, _, _)
AssignBaskets(cs, keys, k, counter) ==
    IF k > Len(keys) THEN cs
    ELSE LET members == {i \in 1..Len(cs) :
                            cs[i].is_elective /\ BasketKey(cs[i]) = keys[k]}
         IN  IF Cardinality(members) > 1
             THEN AssignBaskets(
                      [i \in 1..Len(cs) |->
                          IF i \in members
                          THEN [cs[i] EXCEPT !.basket = <<"B", counter>>]
                          ELSE cs[i]],
                      keys, k + 1, counter + 1)
             ELSE AssignBaskets(cs, keys, k + 1, counter)

detect_baskets(cs) == AssignBaskets(cs, ElectiveKeys(cs, Len(cs)), 1, 1)

(***************************************************************************)
(* Suitable rooms                                                          *)
(***************************************************************************)
\* Variant of get_suitable_rooms with a fault: no capacity filter.
get_suitable_rooms_AnyCapacity(course, session_type) ==
    IF session_type = PRACTICAL THEN labs ELSE big_rooms \o regular_rooms

\* Variant of get_suitable_rooms with a fault: regular rooms come before
\* big rooms.
get_suitable_rooms_RegularFirst(course, session_type) ==
    IF session_type = PRACTICAL
    THEN SelectSeq(labs, LAMBDA room : room.capacity >= course.num_students)
    ELSE SelectSeq(regular_rooms \o big_rooms,
                   LAMBDA room : room.capacity >= course.num_students)

get_suitable_rooms(course, session_type) ==
    IF session_type = PRACTICAL
    THEN SelectSeq(labs, LAMBDA room : room.capacity >= course.num_students)
    ELSE SelectSeq(big_rooms \o regular_rooms,
                   LAMBDA room : room.capacity >= course.num_students)

(***************************************************************************)
(* Constraint checker                                                      *)
(***************************************************************************)
Result(valid, reason, counter) ==
    [valid |-> valid, reason |-> reason, counter |-> counter]

\* Variant of SameDayRule with a fault: the rule for a lecture and a
\* tutorial is missing.
SameDayRule_NoMixedRule(session_type, existing_type) ==
    IF session_type = PRACTICAL /\ existing_type = PRACTICAL
    THEN <<"Two practicals same day", "Already has a practical today">>
    ELSE IF session_type = LECTURE /\ existing_type = LECTURE
    THEN <<"Two lectures same day", "Already has a lecture today">>
    ELSE IF session_type = TUTORIAL /\ existing_type = TUTORIAL
    THEN <<"Two tutorials same day", "Already has a tutorial today">>
    ELSE <<"", "">>

\* Variant of SameDayRule with a fault: the rule for two lectures is missing.
SameDayRule_NoLectureRule(session_type, existing_type) ==
    IF session_type = PRACTICAL /\ existing_type = PRACTICAL
    THEN <<"Two practicals same day", "Already has a practical today">>
    ELSE IF session_type = TUTORIAL /\ existing_type = TUTORIAL
    THEN <<"Two tutorials same day", "Already has a tutorial today">>
    ELSE IF \/ (session_type = LECTURE /\ existing_type = TUTORIAL)
            \/ (session_type = TUTORIAL /\ existing_type = LECTURE)
    THEN <<"Lecture+Tutorial same day", "Already has a theory session today">>
    ELSE <<"", "">>

\* The same-day rules applied when the course has exactly one session on
\* the day: the counter key and the reason of the first rule that rejects,
\* or "" when none does.
SameDayRule(session_type, existing_type) ==
    IF session_type = PRACTICAL /\ existing_type = PRACTICAL
    THEN <<"Two practicals same day", "Already has a practical today">>
    ELSE IF session_type = LECTURE /\ existing_type = LECTURE
    THEN <<"Two lectures same day", "Already has a lecture today">>
    ELSE IF session_type = TUTORIAL /\ existing_type = TUTORIAL
    THEN <<"Two tutorials same day", "Already has a tutorial today">>
    ELSE IF \/ (session_type = LECTURE /\ existing_type = TUTORIAL)
            \/ (session_type = TUTORIAL /\ existing_type = LECTURE)
    THEN <<"Lecture+Tutorial same day", "Already has a theory session today">>
    ELSE <<"", "">>

\* the dict `required` of _check_constraints
required_in_check(session_type) ==
    CASE session_type = LECTURE -> 15
      [] session_type = TUTORIAL -> 10
      [] session_type = PRACTICAL -> 20

\* Variant of FacultyBusy with a fault: the lookup under both halves.
FacultyBusy_AnyHalf(course, time_slot) ==
    \E half \in {"Sem-I", "Sem-II"} :
        SlotIn(time_slot, Get(faculty_schedule, <<course.faculty_name, half>>))

\* Variant of FacultyBusy with a fault: the lookup under a fixed half.
FacultyBusy_FixedHalf(course, time_slot) ==
    SlotIn(time_slot, Get(faculty_schedule, <<course.faculty_name, "Sem-I">>))

\* time_slot in self.faculty_schedule[course.faculty_name][semester_half]
FacultyBusy(course, time_slot) ==
    SlotIn(time_slot,
           Get(faculty_schedule, <<course.faculty_name, course.semester_half>>))

\* Variant of RoomOccupied with a fault: only the first half is looked up.
RoomOccupied_FirstHalfOnly(time_slot, room) ==
    \E half \in {"Sem-I"} :
        SlotIn(time_slot, Get(room_schedule, <<room.room_id, half>>))

\* time_slot in self.room_schedule[room.room_id][half] for one of the two
\* halves
RoomOccupied(time_slot, room) ==
    \E half \in {"Sem-I", "Sem-II"} :
        SlotIn(time_slot, Get(room_schedule, <<room.room_id, half>>))

\* Variant of StudentsBusy with a fault: the lookup always under the key of
\* a course with a section.
StudentsBusy_SectionKey(course, time_slot) ==
    SlotIn(time_slot,
           Get(student_schedule,
               << <<course.branch, course.section, "Sem", course.semester>>,
                  course.semester_half >>))

\* time_slot in self.student_schedule[student_key][semester_half]
StudentsBusy(course, time_slot) ==
    SlotIn(time_slot,
           Get(student_schedule,
               <<get_student_key(course), course.semester_half>>))

\* Variant of check_constraints with a fault: the student check comes
\* before the faculty and room checks.
check_constraints_StudentsFirst(course, session_type, time_slot, room) ==
    LET day == time_slot.day
        daily_sessions == Get(course_daily_schedule, <<course.course_id, day>>)
    IN  IF StudentsBusy(course, time_slot)
        THEN Result(FALSE, "Students busy", "Students busy")
        ELSE IF FacultyBusy(course, time_slot)
        THEN Result(FALSE, "Faculty busy", "Faculty busy")
        ELSE IF RoomOccupied(time_slot, room)
        THEN Result(FALSE, "Room occupied", "Room occupied")
        ELSE IF Len(daily_sessions) >= 2
        THEN Result(FALSE, "Course already has 2 sessions today",
                    "Max 2 sessions/day exceeded")
        ELSE IF /\ Len(daily_sessions) = 1
                /\ SameDayRule(session_type, daily_sessions[1])[1] # ""
        THEN Result(FALSE, SameDayRule(session_type, daily_sessions[1])[2],
                    SameDayRule(session_type, daily_sessions[1])[1])
        ELSE IF time_slot.duration_hours # required_in_check(session_type)
        THEN Result(FALSE, "Wrong duration", "Wrong duration")
        ELSE Result(TRUE, "OK", "")

\* Variant of check_constraints with a fault: the room check comes before
\* the faculty check.
check_constraints_RoomFirst(course, session_type, time_slot, room) ==
    LET day == time_slot.day
        daily_sessions == Get(course_daily_schedule, <<course.course_id, day>>)
    IN  IF RoomOccupied(time_slot, room)
        THEN Result(FALSE, "Room occupied", "Room occupied")
        ELSE IF FacultyBusy(course, time_slot)
        THEN Result(FALSE, "Faculty busy", "Faculty busy")
        ELSE IF StudentsBusy(course, time_slot)
        THEN Result(FALSE, "Students busy", "Students busy")
        ELSE IF Len(daily_sessions) >= 2
        THEN Result(FALSE, "Course already has 2 sessions today",
                    "Max 2 sessions/day exceeded")
        ELSE IF /\ Len(daily_sessions) = 1
                /\ SameDayRule(session_type, daily_sessions[1])[1] # ""
        THEN Result(FALSE, SameDayRule(session_type, daily_sessions[1])[2],
                    SameDayRule(session_type, daily_sessions[1])[1])
        ELSE IF time_slot.duration_hours # required_in_check(session_type)
        THEN Result(FALSE, "Wrong duration", "Wrong duration")
        ELSE Result(TRUE, "OK", "")

\* _check_constraints: the returned (valid, reason) and the key of
\* conflict_reasons it increments ("" when it accepts)
check_constraints(course, session_type, time_slot, room) ==
    LET day == time_slot.day
        daily_sessions == Get(course_daily_schedule, <<course.course_id, day>>)
    IN  IF FacultyBusy(course, time_slot)
        THEN Result(FALSE, "Faculty busy", "Faculty busy")
        ELSE IF RoomOccupied(time_slot, room)
        THEN Result(FALSE, "Room occupied", "Room occupied")
        ELSE IF StudentsBusy(course, time_slot)
        THEN Result(FALSE, "Students busy", "Students busy")
        ELSE IF Len(daily_sessions) >= 2
        THEN Result(FALSE, "Course already has 2 sessions today",
                    "Max 2 sessions/day exceeded")
        ELSE IF /\ Len(daily_sessions) = 1
                /\ SameDayRule(session_type, daily_sessions[1])[1] # ""
        THEN Result(FALSE, SameDayRule(session_type, daily_sessions[1])[2],
                    SameDayRule(session_type, daily_sessions[1])[1])
        ELSE IF time_slot.duration_hours # required_in_check(session_type)
        THEN Result(FALSE, "Wrong duration", "Wrong duration")
        ELSE Result(TRUE, "OK", "")

(***************************************************************************)
(* Assignment engine                                                       *)
(***************************************************************************)
\* "Sem-I" < "Sem-II" in Python's string order
HalfRank(semester_half) == IF semester_half = "Sem-I" THEN 1 ELSE 2

\* a sort key with the practicals ascending
SortKey_PracticalsAscending(c) ==
    <<HalfRank(c.semester_half), c.semester, c.practicals, -c.num_students>>

\* the sort key of generate_timetable, compared as Python compares tuples
SortKey(c) == <<HalfRank(c.semester_half), c.semester, -c.practicals,
                -c.num_students>>

RECURSIVE TupleLess(_, _, _)
TupleLess(a, b, i) ==
    IF i > Len(a) THEN FALSE
    ELSE IF a[i] # b[i] THEN a[i] < b[i]
    ELSE TupleLess(a, b, i + 1)

\* sorted(self.courses, key=...): stable
RECURSIVE InsertCourse(_, _)
InsertCourse(c, sorted) ==
    IF sorted = <<>> THEN <<c>>
    ELSE IF TupleLess(SortKey(c), SortKey(Head(sorted)), 1)
         THEN <<c>> \o sorted
         ELSE <<Head(sorted)>> \o InsertCourse(c, Tail(sorted))

RECURSIVE SortCourses(_)
SortCourses(list) ==
    IF list = <<>> THEN <<>>
    ELSE InsertCourse(list[Len(list)],
                      SortCourses(SubSeq(list, 1, Len(list) - 1)))

\* sessions_needed of schedule_course
sessions_needed(course) ==
    << <<LECTURE, course.lectures>>,
       <<TUTORIAL, course.tutorials>>,
       <<PRACTICAL, course.practicals>> >>

Pos(c, t, n) == [ci |-> c, ti |-> t, session_num |-> n]

\* The next iteration of the nested loops of generate_timetable and
\* schedule_course (course, session type, range(1, count + 1)) at or after
\* session n of type t of course c; ci = Len(cs) + 1 when the loops are over.
RECURSIVE Advance(_, _, _, _)
Advance(cs, c, t, n) ==
    IF c > Len(cs) THEN Pos(Len(cs) + 1, 1, 1)
    ELSE IF t > 3 THEN Advance(cs, c + 1, 1, 1)
    ELSE IF n > sessions_needed(cs[c])[t][2] THEN Advance(cs, c, t + 1, 1)
    ELSE Pos(c, t, n)

course == sorted_courses[ci]
session_type == sessions_needed(course)[ti][1]
suitable_rooms == get_suitable_rooms(course, session_type)
available_slots == slots_by_duration(required(session_type))

\* the conflict entry schedule_course appends for a failed session
ConflictEntry(c, stype, n) ==
    [course_code |-> c.course_code, branch |-> c.branch, section |-> c.section,
     semester_half |-> c.semester_half, session_type |-> stype,
     session_num |-> n, faculty_name |-> c.faculty_name]

ScheduledSession(c, stype, time_slot, room, n) ==
    [course |-> c, session_type |-> stype, time_slot |-> time_slot,
     room |-> room, faculty_name |-> c.faculty_name, session_number |-> n,
     basket |-> c.basket]

NoCheck == [valid |-> FALSE, reason |-> "", counter |-> ""]

\* the arguments of a call of _check_constraints
Call(c, stype, time_slot, room) ==
    [course |-> c, session_type |-> stype, time_slot |-> time_slot,
     room |-> room]

\* before the first call
NoCall == Call(<<>>, "", <<>>, <<>>)

inputs == <<courses, rooms, big_rooms, regular_rooms, labs>>
occupancy == <<faculty_schedule, room_schedule, student_schedule,
               course_daily_schedule>>

\* generate_timetable up to the first session attempt: the sort
generate_timetable ==
    /\ pc = "start"
    /\ sorted_courses' = SortCourses(courses)
    /\ LET p == Advance(sorted_courses', 1, 1, 1)
       IN  /\ ci' = p.ci
           /\ ti' = p.ti
           /\ session_num' = p.session_num
    /\ pc' = "session"
    /\ UNCHANGED <<inputs, schedule, occupancy, conflicts, conflict_reasons,
                   si, ri, ret, call, exported>>

\* Variant of NextSession with a fault: a failed session ends its course.
NextSession_AbortCourse(failed) ==
    /\ conflicts' = IF failed
                    THEN Append(conflicts,
                                ConflictEntry(course, session_type, session_num))
                    ELSE conflicts
    /\ LET p == IF failed
                THEN Advance(sorted_courses, ci + 1, 1, 1)
                ELSE Advance(sorted_courses, ci, ti, session_num + 1)
       IN  /\ ci' = p.ci
           /\ ti' = p.ti
           /\ session_num' = p.session_num
    /\ pc' = "session"
    /\ si' = 0
    /\ ri' = 0

\* What follows a finished session attempt: on failure schedule_course
\* appends the conflict entry; either way the loops move on.
NextSession(failed) ==
    /\ conflicts' = IF failed
                    THEN Append(conflicts,
                                ConflictEntry(course, session_type, session_num))
                    ELSE conflicts
    /\ LET p == Advance(sorted_courses, ci, ti, session_num + 1)
       IN  /\ ci' = p.ci
           /\ ti' = p.ti
           /\ session_num' = p.session_num
    /\ pc' = "session"
    /\ si' = 0
    /\ ri' = 0

\* Variant of schedule_session with a fault: a session without a suitable
\* room is counted as a room conflict.
schedule_session_RoomOccupied ==
    /\ pc = "session"
    /\ ci <= Len(sorted_courses)
    /\ IF suitable_rooms = <<>>
       THEN /\ conflict_reasons' = Incr(conflict_reasons, "Room occupied")
            /\ NextSession(TRUE)
       ELSE /\ pc' = "scan"
            /\ si' = 1
            /\ ri' = 1
            /\ UNCHANGED <<conflict_reasons, conflicts, ci, ti, session_num>>
    /\ UNCHANGED <<inputs, sorted_courses, schedule, occupancy, ret, call,
                   exported>>

\* _schedule_session up to its loops: no suitable room fails at once
schedule_session ==
    /\ pc = "session"
    /\ ci <= Len(sorted_courses)
    /\ IF suitable_rooms = <<>>
       THEN /\ conflict_reasons' = Incr(conflict_reasons, "No suitable room")
            /\ NextSession(TRUE)
       ELSE /\ pc' = "scan"
            /\ si' = 1
            /\ ri' = 1
            /\ UNCHANGED <<conflict_reasons, conflicts, ci, ti, session_num>>
    /\ UNCHANGED <<inputs, sorted_courses, schedule, occupancy, ret, call,
                   exported>>

\* Variant of check_pair with a fault: a rejection of the last pair starts
\* the scan again.
check_pair_RestartScan ==
    /\ pc = "scan"
    /\ LET time_slot == available_slots[si]
           room == suitable_rooms[ri]
           r == check_constraints(course, session_type, time_slot, room)
           semester_half == course.semester_half
       IN  /\ ret' = [valid |-> r.valid, reason |-> r.reason,
                      counter |-> r.counter]
           /\ call' = Call(course, session_type, time_slot, room)
           /\ IF r.valid
              THEN /\ schedule' = Append(schedule,
                        ScheduledSession(course, session_type, time_slot, room,
                                         session_num))
                   /\ faculty_schedule' = Append2(faculty_schedule,
                        <<course.faculty_name, semester_half>>, time_slot)
                   /\ room_schedule' = Append2(room_schedule,
                        <<room.room_id, semester_half>>, time_slot)
                   /\ student_schedule' = Append2(student_schedule,
                        <<get_student_key(course), semester_half>>, time_slot)
                   /\ course_daily_schedule' = Append2(course_daily_schedule,
                        <<course.course_id, time_slot.day>>, session_type)
                   /\ NextSession(FALSE)
                   /\ UNCHANGED conflict_reasons
              ELSE /\ conflict_reasons' = Incr(conflict_reasons, r.counter)
                   /\ UNCHANGED <<schedule, occupancy>>
                   /\ IF ri < Len(suitable_rooms)
                      THEN /\ ri' = ri + 1
                           /\ UNCHANGED <<si, pc, ci, ti, session_num, conflicts>>
                      ELSE IF si < Len(available_slots)
                      THEN /\ si' = si + 1
                           /\ ri' = 1
                           /\ UNCHANGED <<pc, ci, ti, session_num, conflicts>>
                      ELSE /\ si' = 1
                           /\ ri' = 1
                           /\ UNCHANGED <<pc, ci, ti, session_num, conflicts>>
    /\ UNCHANGED <<inputs, sorted_courses, exported>>

\* One iteration of the loops of _schedule_session: the check of the pair
\* (available_slots[si], suitable_rooms[ri]), then the commit, the next
\* pair, or the end of the loops.
check_pair ==
    /\ pc = "scan"
    /\ LET time_slot == available_slots[si]
           room == suitable_rooms[ri]
           r == check_constraints(course, session_type, time_slot, room)
           semester_half == course.semester_half
       IN  /\ ret' = [valid |-> r.valid, reason |-> r.reason,
                      counter |-> r.counter]
           /\ call' = Call(course, session_type, time_slot, room)
           /\ IF r.valid
              THEN /\ schedule' = Append(schedule,
                        ScheduledSession(course, session_type, time_slot, room,
                                         session_num))
                   /\ faculty_schedule' = Append2(faculty_schedule,
                        <<course.faculty_name, semester_half>>, time_slot)
                   /\ room_schedule' = Append2(room_schedule,
                        <<room.room_id, semester_half>>, time_slot)
                   /\ student_schedule' = Append2(student_schedule,
                        <<get_student_key(course), semester_half>>, time_slot)
                   /\ course_daily_schedule' = Append2(course_daily_schedule,
                        <<course.course_id, time_slot.day>>, session_type)
                   /\ NextSession(FALSE)
                   /\ UNCHANGED conflict_reasons
              ELSE /\ conflict_reasons' = Incr(conflict_reasons, r.counter)
                   /\ UNCHANGED <<schedule, occupancy>>
                   /\ IF ri < Len(suitable_rooms)
                      THEN /\ ri' = ri + 1
                           /\ UNCHANGED <<si, pc, ci, ti, session_num, conflicts>>
                      ELSE IF si < Len(available_slots)
                      THEN /\ si' = si + 1
                           /\ ri' = 1
                           /\ UNCHANGED <<pc, ci, ti, session_num, conflicts>>
                      ELSE NextSession(TRUE)
    /\ UNCHANGED <<inputs, sorted_courses, exported>>

\* the end of generate_timetable: the loops are over
finish ==
    /\ pc = "session"
    /\ ci > Len(sorted_courses)
    /\ pc' = "done"
    /\ UNCHANGED <<inputs, sorted_courses, schedule, occupancy, conflicts,
                   conflict_reasons, ci, ti, session_num, si, ri, ret, call,
                   exported>>

\* A call of _check_constraints on the final occupancy with any course,
\* session type, catalog slot and room: the checker counts a rejection and
\* records nothing else.
check_constraints_call ==
    /\ pc = "done"
    /\ \E x \in 1..Len(courses), stype \in SessionType,
          s \in 1..Len(time_slots), k \in 1..Len(rooms) :
          LET r == check_constraints(courses[x], stype, time_slots[s], rooms[k])
          IN  /\ ret' = [valid |-> r.valid, reason |-> r.reason,
                         counter |-> r.counter]
              /\ call' = Call(courses[x], stype, time_slots[s], rooms[k])
              /\ conflict_reasons' = IF r.valid THEN conflict_reasons
                                     ELSE Incr(conflict_reasons, r.counter)
    /\ pc' = "checked"
    /\ UNCHANGED <<inputs, sorted_courses, schedule, occupancy, conflicts,
                   ci, ti, session_num, si, ri, exported>>

(***************************************************************************)
(* Export by student group                                                 *)
(***************************************************************************)
MaxExports == 2

\* strftime('%H:%M') of a time of day: two digits, a colon, two digits
strftime(t) ==
    <<(t \div 60) \div 10, (t \div 60) % 10, ":",
      (t % 60) \div 10, (t % 60) % 10>>

\* the "time" string of an entry: start, a dash, end
TimeString(time_slot) ==
    strftime(time_slot.start_time) \o <<"-">> \o strftime(time_slot.end_time)

\* the dict appended for a session
ExportEntry(session) ==
    [course_code |-> session.course.course_code,
     semester_half |-> session.course.semester_half,
     session_type |-> session.session_type,
     session_number |-> session.session_number,
     day |-> session.time_slot.day,
     time |-> TimeString(session.time_slot),
     room |-> session.room.room_id,
     faculty |-> session.faculty_name,
     is_elective |-> session.course.is_elective,
     basket |-> session.basket]

day_order == <<"Monday", "Tuesday", "Wednesday", "Thursday", "Friday">>

\* day_order.index(day) if day in day_order else 999
DayIndex(day) ==
    IF \E i \in 1..Len(day_order) : day_order[i] = day
    THEN (CHOOSE i \in 1..Len(day_order) : day_order[i] = day) - 1
    ELSE 999

\* a sort key of the time string only
ExportKey_TimeOnly(x) == x.time

\* the sort key of an entry: the strings are compared character by
\* character, as the tuples are
ExportKey(x) == <<DayIndex(x.day)>> \o x.time

\* list.sort(key=...): stable
RECURSIVE InsertEntry(_, _)
InsertEntry(x, sorted) ==
    IF sorted = <<>> THEN <<x>>
    ELSE IF TupleLess(ExportKey(x), ExportKey(Head(sorted)), 1)
         THEN <<x>> \o sorted
         ELSE <<Head(sorted)>> \o InsertEntry(x, Tail(sorted))

RECURSIVE SortEntries(_)
SortEntries(list) ==
    IF list = <<>> THEN <<>>
    ELSE InsertEntry(list[Len(list)],
                     SortEntries(SubSeq(list, 1, Len(list) - 1)))

\* the entries appended under key, in schedule order
RECURSIVE EntriesOf(_, _)
EntriesOf(key, n) ==
    IF n = 0 THEN <<>>
    ELSE IF get_student_key(schedule[n].course) = key
         THEN Append(EntriesOf(key, n - 1), ExportEntry(schedule[n]))
         ELSE EntriesOf(key, n - 1)

\* the dict export_by_student_group returns
organized ==
    [key \in {get_student_key(schedule[i].course) : i \in 1..Len(schedule)}
        |-> SortEntries(EntriesOf(key, Len(schedule)))]

\* a call of export_by_student_group on the final schedule; exported holds
\* the values returned so far
export_by_student_group ==
    /\ pc = "done"
    /\ Len(exported) < MaxExports
    /\ exported' = Append(exported, organized)
    /\ UNCHANGED <<inputs, sorted_courses, schedule, occupancy, conflicts,
                   conflict_reasons, pc, ci, ti, session_num, si, ri, ret,
                   call>>

(***************************************************************************)
(* Inputs                                                                  *)
(***************************************************************************)
Halves == {"Sem-I", "Sem-II"}

\* Course(...) as load_data builds the n-th course: course_id COURSE_n,
\* no basket yet
Course(n, semester, semester_half, section, counts, faculty_name, is_elective, num_students) ==
    [course_id |-> n, course_code |-> <<"CS", n>>, semester |-> semester,
     semester_half |-> semester_half, branch |-> "CSE", section |-> section,
     lectures |-> counts[1], tutorials |-> counts[2], practicals |-> counts[3],
     faculty_name |-> faculty_name, is_elective |-> is_elective,
     basket |-> NoBasket, num_students |-> num_students]

Room(room_id, capacity) == [room_id |-> room_id, capacity |-> capacity]

\* the rooms the inputs are drawn from: a big room, a regular room, a lab,
\* and a room that is both large and lab-prefixed
RoomPool ==
    { Room(<<"C", "1">>, 120), Room(<<"C", "2">>, 60),
      Room(<<"L", "1">>, 60), Room(<<"L", "2">>, 120) }

\* (faculty_name, section) of the drawn courses: two courses of one half
\* share the faculty and the cohort, the faculty only, or the cohort only
Teaching == { <<"F1", "">>, <<"F1", "A">>, <<"F2", "">> }

CourseShapes == Halves \X Teaching

\* a drawn course: semester 1, one lecture, one tutorial, one practical,
\* and the 60 students load_data gives every course
MkCourse(n, sh) ==
    Course(n, 1, sh[1], sh[2][2], <<1, 1, 1>>, sh[2][1], FALSE, 60)

RECURSIVE SeqsUpTo(_, _)
SeqsUpTo(S, n) ==
    IF n = 0 THEN {<<>>}
    ELSE LET shorter == SeqsUpTo(S, n - 1)
         IN  shorter \cup {Append(q, x) : q \in shorter, x \in S}

NoRepeat(q) == \A i, j \in 1..Len(q) : i # j => q[i] # q[j]

DrawnInputs ==
    { [courses |-> [n \in 1..Len(shapes) |-> MkCourse(n, shapes[n])],
       rooms |-> rs] :
        shapes \in SeqsUpTo(CourseShapes, MaxCourses),
        rs \in {q \in SeqsUpTo(RoomPool, MaxRooms) : NoRepeat(q)} }

\* Named inputs: the scenarios of the design's testable properties and
\* inputs with the session counts, room ids and capacities the drawn inputs
\* lack.
C1big == Room(<<"C", "1">>, 120)
C2reg == Room(<<"C", "2">>, 60)
C3small == Room(<<"C", "3">>, 40)
L1lab == Room(<<"L", "1">>, 60)
L2biglab == Room(<<"L", "2">>, 120)
CLABreg == Room(<<"C", "L", "A", "B">>, 60)
clabreg == Room(<<"c", "l", "a", "b", "7">>, 80)
C4huge == Room(<<"C", "4">>, 150)

\* four courses whose 19 lectures fill every 1.5h slot of a single room
\* but Friday 16:00-17:30, then two courses of one faculty with one
\* lecture each
OnePairLeft ==
    << Course(1, 1, "Sem-I", "A", <<5, 0, 0>>, "G1", FALSE, 60),
       Course(2, 1, "Sem-I", "B", <<5, 0, 0>>, "G2", FALSE, 60),
       Course(3, 1, "Sem-I", "C", <<5, 0, 0>>, "G3", FALSE, 60),
       Course(4, 1, "Sem-I", "D", <<4, 0, 0>>, "G4", FALSE, 60),
       Course(5, 2, "Sem-I", "E", <<1, 0, 0>>, "F1", FALSE, 60),
       Course(6, 2, "Sem-I", "F", <<1, 0, 0>>, "F1", FALSE, 60) >>

NamedInputs ==
    { [courses |-> << Course(1, 1, "Sem-I", "", <<1, 0, 0>>, "F1", FALSE, 60) >>,
       rooms |-> rs] :
        rs \in { <<C2reg>>, <<C2reg, C1big>>, <<L1lab>>, <<C3small>>,
                 <<CLABreg>>, <<clabreg, C2reg>>, <<C2reg, C2reg>> } }
    \cup
    { [courses |-> << Course(1, 3, "Sem-II", "A", counts, "F1", FALSE, 60) >>,
       rooms |-> <<C2reg, L1lab>>] :
        counts \in { <<3, 0, 0>>, <<2, 1, 1>>, <<0, 2, 2>>, <<6, 0, 0>>,
                     <<0, 0, 0>> } }
    \cup
    { [courses |-> << Course(1, 2, "Sem-II", "", <<1, 0, 1>>, "F1", FALSE, 120),
                      Course(2, 1, "Sem-I", "", <<2, 0, 0>>, "F1", FALSE, 60) >>,
       rooms |-> <<C2reg, L2biglab, CLABreg>>],
      [courses |-> << Course(1, 1, "Sem-I", "", <<1, 0, 1>>, "F1", FALSE, 60) >>,
       rooms |-> <<C2reg, clabreg, C1big, C4huge, L1lab, L2biglab>>],
      [courses |-> OnePairLeft, rooms |-> <<C2reg>>],
      [courses |-> OnePairLeft, rooms |-> <<C3small, C2reg>>] }

Inputs == DrawnInputs \cup NamedInputs

\* the state after ImprovedScheduler(courses, rooms), for the inputs of ins
InitFrom(ins) ==
    /\ \E in \in ins :
        /\ courses = detect_baskets(in.courses)
        /\ rooms = in.rooms
    /\ big_rooms = BigRooms(rooms)
    /\ regular_rooms = RegularRooms(rooms)
    /\ labs = Labs(rooms)
    /\ schedule = <<>>
    /\ faculty_schedule = <<>>
    /\ room_schedule = <<>>
    /\ student_schedule = <<>>
    /\ course_daily_schedule = <<>>
    /\ conflicts = <<>>
    /\ conflict_reasons = <<>>
    /\ sorted_courses = <<>>
    /\ pc = "start"
    /\ ci = 0
    /\ ti = 0
    /\ session_num = 0
    /\ si = 0
    /\ ri = 0
    /\ ret = NoCheck
    /\ call = NoCall
    /\ exported = <<>>

Init == InitFrom(Inputs)

Next ==
    \/ generate_timetable
    \/ schedule_session
    \/ check_pair
    \/ finish

Spec == Init /\ [][Next]_vars

\* main: generate_timetable, then calls of export_by_student_group
NextExport ==
    \/ Next
    \/ export_by_student_group

SpecExport == Init /\ [][NextExport]_vars

\* Two drawn courses in a big room and a big lab, and the named inputs of
\* one or two courses.
CheckerInputs ==
    { [courses |-> <<MkCourse(1, a), MkCourse(2, b)>>,
       rooms |-> <<C1big, L2biglab>>] : a, b \in CourseShapes }
    \cup {in \in NamedInputs : Len(in.courses) <= 2}

InitChecker == InitFrom(CheckerInputs)

\* a run, then one call of the checker on its final occupancy
NextChecker ==
    \/ Next
    \/ check_constraints_call

SpecChecker == InitChecker /\ [][NextChecker]_vars

(***************************************************************************)
(* Runs over courses that differ in the fields of the sort key             *)
(***************************************************************************)
MaxOrderCourses == 2

\* (semester_half, semester, practicals, num_students)
OrderShapes == Halves \X {1, 2} \X {0, 1} \X {60, 120}

\* one lecture and sh[3] practicals, all taught by one faculty
OrderCourse(n, sh) ==
    Course(n, sh[2], sh[1], "", <<1, 0, sh[3]>>, "F1", FALSE, sh[4])

\* a single big room: the lectures are placed, the practicals have no lab
OrderInputs ==
    { [courses |-> [n \in 1..Len(shapes) |-> OrderCourse(n, shapes[n])],
       rooms |-> <<C1big>>] :
        shapes \in SeqsUpTo(OrderShapes, MaxOrderCourses) }

InitOrder == InitFrom(OrderInputs)

SpecOrder == InitOrder /\ [][Next]_vars

\* The runs of the named inputs of one or two courses and of the courses
\* that differ in the fields of the sort key.
InitFair ==
    InitFrom({in \in NamedInputs : Len(in.courses) <= 2} \cup OrderInputs)

\* generate_timetable is one sequential call: the interpreter always
\* takes the next step of the loops
FairSpec == InitFair /\ [][Next]_vars /\ WF_vars(Next)

(***************************************************************************)
(* Runs of one course with every session load, all rooms free              *)
(***************************************************************************)
MaxLoad == 6

\* one course with 0..MaxLoad lectures, tutorials and practicals, alone in
\* a big room, a regular room and two labs
LoadInputs ==
    { [courses |-> << Course(1, 1, "Sem-I", "A", <<l, t, p>>, "F1", FALSE, 60) >>,
       rooms |-> <<C1big, C2reg, L1lab, L2biglab>>] :
        l \in 0..MaxLoad, t \in 0..MaxLoad, p \in 0..MaxLoad }

InitLoad == InitFrom(LoadInputs)

SpecLoad == InitLoad /\ [][Next]_vars

(***************************************************************************)
(* Runs over course lists with electives                                   *)
(***************************************************************************)
MaxBasketCourses == 4

\* (is_elective, semester, branch, semester_half): a core course, and
\* electives whose keys differ in one field each
BasketShapes ==
    { <<FALSE, 1, "CSE", "Sem-I">>, <<TRUE, 1, "CSE", "Sem-I">>,
      <<TRUE, 2, "CSE", "Sem-I">>, <<TRUE, 1, "ECE", "Sem-I">>,
      <<TRUE, 1, "CSE", "Sem-II">> }

\* the first course has one lecture, the others have no session
BasketCourse(n, sh) ==
    [Course(n, sh[2], sh[4], "", <<IF n = 1 THEN 1 ELSE 0, 0, 0>>, "F1",
            sh[1], 60) EXCEPT !.branch = sh[3]]

BasketInputs ==
    { [courses |-> [n \in 1..Len(shapes) |-> BasketCourse(n, shapes[n])],
       rooms |-> <<C1big>>] :
        shapes \in SeqsUpTo(BasketShapes, MaxBasketCourses) }

InitBaskets == InitFrom(BasketInputs)

SpecBaskets == InitBaskets /\ [][Next]_vars

(***************************************************************************)
(* Properties                                                              *)
(***************************************************************************)
Sessions == 1..Len(schedule)

SameSlot(i, j) == SlotEq(schedule[i].time_slot, schedule[j].time_slot)

SameFacultyAndHalf(i, j) ==
    /\ schedule[i].course.faculty_name = schedule[j].course.faculty_name
    /\ schedule[i].course.semester_half = schedule[j].course.semester_half

SameStudentsAndHalf(i, j) ==
    /\ get_student_key(schedule[i].course) = get_student_key(schedule[j].course)
    /\ schedule[i].course.semester_half = schedule[j].course.semester_half

SameRoom(i, j) == schedule[i].room.room_id = schedule[j].room.room_id

\* C1: after generate_timetable no two distinct scheduled sessions use the
\* same room_id in the same time slot (same day, start and end), whether
\* their courses are in the same semester half or in different ones.
C1_NoRoomDoubleBooking ==
    pc = "done" =>
        \A i, j \in Sessions : (i # j /\ SameRoom(i, j)) => ~SameSlot(i, j)

\* a finished run in which courses of both halves were placed in one room
\* and a candidate was rejected because the room was taken
C1_Witness ==
    /\ pc = "done"
    /\ Count(conflict_reasons, "Room occupied") > 0
    /\ \E i, j \in Sessions :
        /\ SameRoom(i, j)
        /\ schedule[i].course.semester_half # schedule[j].course.semester_half
        /\ schedule[i].time_slot.day = schedule[j].time_slot.day
        /\ schedule[i].session_type = schedule[j].session_type

\* C2: after generate_timetable no two distinct scheduled sessions whose
\* courses have the same faculty_name and the same semester_half are in the
\* same time slot.
C2_NoFacultyDoubleBooking ==
    pc = "done" =>
        \A i, j \in Sessions :
            (i # j /\ SameFacultyAndHalf(i, j)) => ~SameSlot(i, j)

\* a finished run in which two courses of one faculty and half, with
\* different cohorts, were placed and a candidate was rejected because the
\* faculty was busy
C2_Witness ==
    /\ pc = "done"
    /\ Count(conflict_reasons, "Faculty busy") > 0
    /\ \E i, j \in Sessions :
        /\ schedule[i].course.course_id # schedule[j].course.course_id
        /\ SameFacultyAndHalf(i, j)
        /\ ~SameStudentsAndHalf(i, j)
        /\ ~SameRoom(i, j)

\* C3: after generate_timetable no two distinct scheduled sessions whose
\* courses have the same student key and the same semester_half are in the
\* same time slot.
C3_NoStudentDoubleBooking ==
    pc = "done" =>
        \A i, j \in Sessions :
            (i # j /\ SameStudentsAndHalf(i, j)) => ~SameSlot(i, j)

\* a finished run in which two courses of one cohort and half, with
\* different faculty, were placed in different rooms and a candidate was
\* rejected because the students were busy
C3_Witness ==
    /\ pc = "done"
    /\ Count(conflict_reasons, "Students busy") > 0
    /\ \E i, j \in Sessions :
        /\ schedule[i].course.course_id # schedule[j].course.course_id
        /\ SameStudentsAndHalf(i, j)
        /\ ~SameFacultyAndHalf(i, j)
        /\ ~SameRoom(i, j)

\* C4: exact-match slot membership suffices for conflict detection: after
\* generate_timetable no two scheduled sessions of the same student key and
\* semester_half, of the same faculty and semester_half, or in the same
\* room are held in time slots that overlap.
C4_NoSimultaneousSessions ==
    pc = "done" =>
        \A i, j \in Sessions :
            (/\ i # j
             /\ \/ SameStudentsAndHalf(i, j)
                \/ SameFacultyAndHalf(i, j)
                \/ SameRoom(i, j))
            => ~overlaps(schedule[i].time_slot, schedule[j].time_slot)

\* the sessions placed for a course on a day
DaySessions(course_id, day) ==
    {i \in Sessions : /\ schedule[i].course.course_id = course_id
                      /\ schedule[i].time_slot.day = day}

Theory == {LECTURE, TUTORIAL}

\* a room a lecture of course c can be held in
LectureRoom(c, r) ==
    /\ r.capacity >= c.num_students
    /\ (r.capacity >= 100 \/ ~StartsWithL(r.room_id))

LecturesOf(c) ==
    {i \in Sessions : /\ schedule[i].course.course_id = c.course_id
                      /\ schedule[i].session_type = LECTURE}

\* C5: in every state of a run, for every course and weekday the sessions
\* placed for the course on the day are at most 2, never two of the same
\* type and never a lecture with a tutorial; and a single course with 3
\* lectures and a room for them ends with its 3 lectures on 3 different
\* days.
C5_DailyRules ==
    /\ \A n \in 1..Len(courses) : \A d \in 1..Len(days) :
        LET placed == DaySessions(courses[n].course_id, days[d])
        IN  /\ Cardinality(placed) <= 2
            /\ \A i, j \in placed :
                i # j =>
                    /\ schedule[i].session_type # schedule[j].session_type
                    /\ ~(/\ schedule[i].session_type \in Theory
                         /\ schedule[j].session_type \in Theory)
    /\ (/\ pc = "done"
        /\ Len(courses) = 1
        /\ courses[1].lectures = 3
        /\ \E k \in 1..Len(rooms) : LectureRoom(courses[1], rooms[k]))
       => /\ Cardinality(LecturesOf(courses[1])) = 3
          /\ \A i, j \in LecturesOf(courses[1]) :
                i # j => schedule[i].time_slot.day # schedule[j].time_slot.day

\* a finished run of a single course whose 3 lectures were all placed, a
\* second lecture on a day having been rejected
C5_Witness ==
    /\ pc = "done"
    /\ Len(courses) = 1
    /\ courses[1].lectures = 3
    /\ Cardinality(LecturesOf(courses[1])) = 3
    /\ Count(conflict_reasons, "Two lectures same day") > 0

CanonicalDuration(stype) ==
    IF stype = LECTURE THEN 15 ELSE IF stype = TUTORIAL THEN 10 ELSE 20

\* C6: every scheduled session's time slot has the canonical duration of
\* its session type, 1.5h for a lecture, 1.0h for a tutorial, 2.0h for a
\* practical, both as its duration_hours and as the time from its start to
\* its end.
C6_DurationMatch ==
    \A i \in Sessions :
        /\ schedule[i].time_slot.duration_hours =
               CanonicalDuration(schedule[i].session_type)
        /\ (schedule[i].time_slot.end_time - schedule[i].time_slot.start_time) * 10
               = CanonicalDuration(schedule[i].session_type) * 60

\* a finished run with a lecture, a tutorial and a practical placed
C6_Witness ==
    /\ pc = "done"
    /\ \A stype \in SessionType :
        \E i \in Sessions : schedule[i].session_type = stype

RECURSIVE SessionsRequired(_, _)
SessionsRequired(cs, n) ==
    IF n = 0 THEN 0
    ELSE cs[n].lectures + cs[n].tutorials + cs[n].practicals
         + SessionsRequired(cs, n - 1)

CountOf(c, stype) ==
    IF stype = LECTURE THEN c.lectures
    ELSE IF stype = TUTORIAL THEN c.tutorials ELSE c.practicals

ScheduledAs(c, stype, n) ==
    {i \in Sessions : /\ schedule[i].course.course_id = c.course_id
                      /\ schedule[i].session_type = stype
                      /\ schedule[i].session_number = n}

ConflictsOf(c, stype, n) ==
    {k \in 1..Len(conflicts) : /\ conflicts[k].course_code = c.course_code
                               /\ conflicts[k].session_type = stype
                               /\ conflicts[k].session_num = n}

\* C7: when generate_timetable finishes, the scheduled sessions and the
\* conflict entries together number the sum of lectures + tutorials +
\* practicals over all courses, and every required session (course, type,
\* number 1..count) is exactly once in the schedule or in the conflict
\* list.
C7_CompleteReporting ==
    pc = "done" =>
        /\ Len(schedule) + Len(conflicts) = SessionsRequired(courses, Len(courses))
        /\ \A x \in 1..Len(courses) : \A stype \in SessionType :
            \A n \in 1..CountOf(courses[x], stype) :
                Cardinality(ScheduledAs(courses[x], stype, n))
                + Cardinality(ConflictsOf(courses[x], stype, n)) = 1

\* a finished run in which a session failed and a later session of the same
\* course, and a session of a later course, were placed
C7_Witness ==
    /\ pc = "done"
    /\ \E k \in 1..Len(conflicts) : \E i, j \in Sessions :
        /\ conflicts[k].session_type = LECTURE
        /\ schedule[i].course.course_code = conflicts[k].course_code
        /\ schedule[i].session_type = PRACTICAL
        /\ schedule[j].course.course_code # conflicts[k].course_code
        /\ i < j

InList(list, r) == \E i \in 1..Len(list) : list[i] = r

ClassesOf(r) ==
    {x \in {"big_rooms", "regular_rooms", "labs"} :
        \/ x = "big_rooms" /\ InList(big_rooms, r)
        \/ x = "regular_rooms" /\ InList(regular_rooms, r)
        \/ x = "labs" /\ InList(labs, r)}

\* C8: the room classifier puts every room in exactly one of the three
\* classes big_rooms, regular_rooms, labs: the lists are pairwise disjoint
\* and together cover all rooms.
C8_ExactlyOneClass ==
    \A k \in 1..Len(rooms) : Cardinality(ClassesOf(rooms[k])) = 1

\* the catalog slots a session of the type may take, in catalog order
SlotsFor(stype) ==
    SelectSeq(time_slots, LAMBDA s : s.duration_hours = CanonicalDuration(stype))

\* the pair (s, r) comes before the pair (s2, r2) in the scan: slots outer,
\* rooms inner
ScannedBefore(s, r, s2, r2) == s < s2 \/ (s = s2 /\ r < r2)

\* Every commit takes the first pair of the scan the checker accepts, and a
\* session ends as a conflict only if the checker accepts no pair.
FirstFitStep ==
    /\ (schedule' # schedule) =>
        LET new == schedule'[Len(schedule')]
            slots == SlotsFor(new.session_type)
            rms == get_suitable_rooms(new.course, new.session_type)
        IN  /\ schedule' = Append(schedule, new)
            /\ \E s \in 1..Len(slots) : \E r \in 1..Len(rms) :
                /\ new.time_slot = slots[s]
                /\ new.room = rms[r]
                /\ check_constraints(new.course, new.session_type,
                                     slots[s], rms[r]).valid
                /\ \A s2 \in 1..s : \A r2 \in 1..Len(rms) :
                    ScannedBefore(s2, r2, s, r) =>
                        ~check_constraints(new.course, new.session_type,
                                           slots[s2], rms[r2]).valid
    /\ (conflicts' # conflicts) =>
        LET slots == SlotsFor(session_type)
            rms == get_suitable_rooms(course, session_type)
        IN  \A s \in 1..Len(slots) : \A r \in 1..Len(rms) :
                ~check_constraints(course, session_type, slots[s], rms[r]).valid

OneLectureOnly ==
    /\ Len(courses) = 1
    /\ courses[1].lectures = 1
    /\ courses[1].tutorials = 0
    /\ courses[1].practicals = 0

LectureRoomsOf(c) == {k \in 1..Len(rooms) : LectureRoom(c, rooms[k])}

MondayMorning(slot) ==
    /\ slot.day = "Monday"
    /\ slot.start_time = 9 * 60
    /\ slot.end_time = 10 * 60 + 30

\* exactly one scheduled session, on Monday 09:00-10:30, and no conflict
OneSessionMondayMorning ==
    /\ Len(schedule) = 1
    /\ conflicts = <<>>
    /\ schedule[1].session_type = LECTURE
    /\ schedule[1].session_number = 1
    /\ MondayMorning(schedule[1].time_slot)

\* The scenario of a finished run: a single course with 1 lecture and at
\* least one room a lecture of it can be held in (of sufficient capacity,
\* and large or not lab-prefixed) has exactly one scheduled session, on
\* Monday 09:00-10:30 in a largest such room, and no conflict.
OneLectureScenario ==
    (pc = "done" /\ OneLectureOnly /\ LectureRoomsOf(courses[1]) # {}) =>
        /\ OneSessionMondayMorning
        /\ \E k \in LectureRoomsOf(courses[1]) :
            /\ schedule[1].room = rooms[k]
            /\ \A k2 \in LectureRoomsOf(courses[1]) :
                rooms[k2].capacity <= rooms[k].capacity

\* the scenario as stated: one room of sufficient capacity
OneLectureScenarioAnyRoom ==
    (/\ pc = "done"
     /\ OneLectureOnly
     /\ Len(rooms) = 1
     /\ rooms[1].capacity >= courses[1].num_students) =>
        /\ OneSessionMondayMorning
        /\ schedule[1].room = rooms[1]

\* C9 (as stated): first-fit, each placed session gets the first (slot,
\* room) pair of the scan the checker accepts; and a single course with 1
\* lecture and one room of sufficient capacity ends with exactly one
\* session, on Monday 09:00-10:30 in that room, and no conflict.
C9_FirstFitAnyRoom == [][FirstFitStep /\ OneLectureScenarioAnyRoom']_vars

\* C9 (amended): first-fit, each placed session gets the first (slot, room)
\* pair, slots of its duration in catalog order (outer) and suitable rooms
\* in classifier order (inner), that the checker accepts in the occupancy
\* of that moment; and a single course with 1 lecture and a room of
\* sufficient capacity that is large or not lab-prefixed ends with exactly
\* one session, on Monday 09:00-10:30 in the largest suitable room, and no
\* conflict.
C9_FirstFit == [][FirstFitStep /\ OneLectureScenario']_vars

\* a finished run of a single course with 1 lecture and two suitable rooms
\* of different capacities, the smaller one first in the input
C9_Witness ==
    /\ pc = "done"
    /\ OneLectureOnly
    /\ Len(rooms) = 2
    /\ LectureRoomsOf(courses[1]) = {1, 2}
    /\ rooms[1].capacity < rooms[2].capacity
    /\ Len(schedule) = 1

\* the position of a course in the processing order
Place(c) == CHOOSE x \in 1..Len(sorted_courses) :
                sorted_courses[x].course_id = c.course_id

\* the sessions placed for the courses processed before the x-th
PlacedBefore(x) == {i \in Sessions : Place(schedule[i].course) < x}

\* the 1.5h (slot, room) pairs free for a first lecture of course c when
\* only the sessions of `placed` are in the schedule
FreePairs(c, placed) ==
    {<<slot, rooms[k].room_id>> :
        slot \in {s \in {time_slots[n] : n \in 1..Len(time_slots)} :
                    s.duration_hours = 15},
        k \in LectureRoomsOf(c)}
    \ ({<<schedule[i].time_slot, room_id>> :
        i \in {x \in placed :
                \/ /\ schedule[x].course.faculty_name = c.faculty_name
                   /\ schedule[x].course.semester_half = c.semester_half
                \/ /\ get_student_key(schedule[x].course) = get_student_key(c)
                   /\ schedule[x].course.semester_half = c.semester_half},
        room_id \in {rooms[k].room_id : k \in 1..Len(rooms)}}
       \cup {<<schedule[i].time_slot, schedule[i].room.room_id>> : i \in placed})

\* the x-th and the y-th course processed have one faculty and half and one
\* lecture each, and a single 1.5h pair is free for both when the x-th is
\* begun
OnePairForBoth(x, y) ==
    /\ x < y
    /\ sorted_courses[x].faculty_name = sorted_courses[y].faculty_name
    /\ sorted_courses[x].semester_half = sorted_courses[y].semester_half
    /\ sorted_courses[x].lectures = 1
    /\ sorted_courses[y].lectures = 1
    /\ Cardinality(FreePairs(sorted_courses[x], PlacedBefore(x))) = 1
    /\ FreePairs(sorted_courses[x], PlacedBefore(x))
         = FreePairs(sorted_courses[y], PlacedBefore(x))

\* in a finished run the course processed first holds the single pair and
\* the lecture of the other is a conflict entry
FirstTakesThePair ==
    pc = "done" =>
        \A x, y \in 1..Len(sorted_courses) :
            OnePairForBoth(x, y) =>
                /\ \E i \in ScheduledAs(sorted_courses[x], LECTURE, 1) :
                    <<schedule[i].time_slot, schedule[i].room.room_id>>
                        \in FreePairs(sorted_courses[x], PlacedBefore(x))
                /\ ScheduledAs(sorted_courses[y], LECTURE, 1) = {}
                /\ Cardinality(ConflictsOf(sorted_courses[y], LECTURE, 1)) = 1

\* a check of a pair whose slot the faculty of the course already holds in
\* the course's half returns "Faculty busy"
HeldSlotIsFacultyBusy ==
    (/\ pc = "scan"
     /\ \E i \in Sessions :
            /\ schedule[i].course.faculty_name = course.faculty_name
            /\ schedule[i].course.semester_half = course.semester_half
            /\ SlotEq(schedule[i].time_slot, available_slots[si]))
    => (~ret'.valid /\ ret'.reason = "Faculty busy")

\* C10: if two courses have the same faculty_name and semester_half and one
\* lecture each, and a single 1.5h (slot, room) pair is available and
\* suitable for both, the course processed first is placed in that pair and
\* the other ends as a conflict entry, its check of that pair, like every
\* check of a slot its faculty holds, being rejected with "Faculty busy".
C10_SecondCourseFacultyBusy ==
    [][HeldSlotIsFacultyBusy /\ FirstTakesThePair']_vars

\* a finished run in which two courses of one faculty had a single pair
\* free for both
C10_Witness ==
    /\ pc = "done"
    /\ \E x, y \in 1..Len(sorted_courses) : OnePairForBoth(x, y)
    /\ Count(conflict_reasons, "Faculty busy") > 0

(***************************************************************************)
(* Processing order                                                        *)
(***************************************************************************)
\* the key (semester_half, semester, -practicals, -num_students) of a is
\* smaller than that of b
KeyBefore(a, b) ==
    \/ a.semester_half = "Sem-I" /\ b.semester_half = "Sem-II"
    \/ /\ a.semester_half = b.semester_half
       /\ \/ a.semester < b.semester
          \/ /\ a.semester = b.semester
             /\ \/ a.practicals > b.practicals
                \/ /\ a.practicals = b.practicals
                   /\ a.num_students > b.num_students

\* course a is processed before course b: smaller key, or the same key and
\* earlier in the input
CourseBefore(a, b) ==
    \/ KeyBefore(a, b)
    \/ ~KeyBefore(b, a) /\ a.course_id < b.course_id

TypeIndex(stype) ==
    IF stype = LECTURE THEN 1 ELSE IF stype = TUTORIAL THEN 2 ELSE 3

\* session (a, ta, na) is attempted before session (b, tb, nb)
AttemptBefore(a, ta, na, b, tb, nb) ==
    \/ CourseBefore(a, b)
    \/ /\ a.course_id = b.course_id
       /\ \/ TypeIndex(ta) < TypeIndex(tb)
          \/ ta = tb /\ na < nb

\* the course a conflict entry names
CourseOfCode(code) == CHOOSE c \in {courses[x] : x \in 1..Len(courses)} :
                          c.course_code = code

C11_TieWitness ==
    /\ pc = "done"
    /\ Len(courses) = 2
    /\ ~KeyBefore(courses[1], courses[2])
    /\ ~KeyBefore(courses[2], courses[1])
    /\ Len(conflicts) = 2

(***************************************************************************)
(* Elective baskets                                                        *)
(***************************************************************************)
\* the electives of the same (semester, branch, semester_half) as course x
ElectiveGroup(x) ==
    {y \in 1..Len(courses) :
        /\ courses[y].is_elective
        /\ courses[y].semester = courses[x].semester
        /\ courses[y].branch = courses[x].branch
        /\ courses[y].semester_half = courses[x].semester_half}

\* course x is an elective with at least one other elective in its group
InBasket(x) ==
    /\ courses[x].is_elective
    /\ \E y \in ElectiveGroup(x) : y # x

\* the input position of the first course of x's group
FirstOfGroup(x) ==
    CHOOSE y \in ElectiveGroup(x) : \A z \in ElectiveGroup(x) : y <= z

\* the number of the basket of x: the groups of two or more are numbered
\* in the order of their first courses
BasketNumber(x) ==
    Cardinality({FirstOfGroup(y) : y \in {z \in 1..Len(courses) :
                    InBasket(z) /\ FirstOfGroup(z) <= FirstOfGroup(x)}})

PairNo == (si - 1) * Len(suitable_rooms) + ri

Attempt == <<ci, ti, session_num>>

\* a scan starts at pair 1, every check is of a pair numbered at most
\* (slots of the duration) x (suitable rooms), and a check that does not
\* end the attempt is followed by the next pair of the same attempt
ChecksBounded ==
    /\ (pc = "session" /\ pc' = "scan") => (PairNo' = 1 /\ Attempt' = Attempt)
    /\ pc = "scan" =>
        /\ PairNo \in 1..(Len(available_slots) * Len(suitable_rooms))
        /\ call' = Call(course, session_type, available_slots[si],
                        suitable_rooms[ri])
        /\ pc' \in {"scan", "session"}
        /\ pc' = "scan" => (Attempt' = Attempt /\ PairNo' = PairNo + 1)

\* C13: generate_timetable terminates: every session attempt ends after at
\* most (slots of its duration) x (suitable rooms) checks, and the run
\* reaches its final state.
C13_Termination == <>(pc = "done") /\ [][ChecksBounded]_vars

\* a finished run in which an attempt failed on its last pair, after every
\* pair was checked
C13_Witness ==
    /\ pc = "done"
    /\ conflicts # <<>>
    /\ ~ret.valid
    /\ ret.reason # ""
    /\ call.time_slot = slots_by_duration(required(call.session_type))[
                            Len(slots_by_duration(required(call.session_type)))]

(***************************************************************************)
(* Export by student group                                                 *)
(***************************************************************************)
\* the positions of session i among the entries of group key of output e
EntriesFor(e, key, i) ==
    {p \in 1..Len(e[key]) :
        /\ e[key][p].course_code = schedule[i].course.course_code
        /\ e[key][p].session_type = schedule[i].session_type
        /\ e[key][p].session_number = schedule[i].session_number}

\* the scheduled session an entry stands for
SessionOf(x) ==
    CHOOSE i \in Sessions :
        /\ schedule[i].course.course_code = x.course_code
        /\ schedule[i].session_type = x.session_type
        /\ schedule[i].session_number = x.session_number

Weekday(day) == CHOOSE d \in 1..Len(days) : days[d] = day

\* entry x is not after entry y by (weekday, start time)
NotAfter(x, y) ==
    LET a == schedule[SessionOf(x)].time_slot
        b == schedule[SessionOf(y)].time_slot
    IN  \/ Weekday(a.day) < Weekday(b.day)
        \/ a.day = b.day /\ a.start_time <= b.start_time

\* output e groups every scheduled session once, under its student key,
\* with its day, time and room, and every group is ordered
GroupedAndOrdered(e) ==
    /\ \A i \in Sessions :
        /\ get_student_key(schedule[i].course) \in DOMAIN e
        /\ \A key \in DOMAIN e :
            Cardinality(EntriesFor(e, key, i))
                = IF key = get_student_key(schedule[i].course) THEN 1 ELSE 0
    /\ \A key \in DOMAIN e :
        /\ Len(e[key]) > 0
        /\ \A p \in 1..Len(e[key]) :
            /\ \E i \in Sessions : p \in EntriesFor(e, key, i)
            /\ e[key][p].day = schedule[SessionOf(e[key][p])].time_slot.day
            /\ e[key][p].room = schedule[SessionOf(e[key][p])].room.room_id
        /\ \A p, q \in 1..Len(e[key]) :
            p < q => NotAfter(e[key][p], e[key][q])

\* a call of export_by_student_group changes nothing but the list of
\* returned values
ExportFrame ==
    exported' # exported =>
        /\ schedule' = schedule
        /\ occupancy' = occupancy
        /\ conflicts' = conflicts
        /\ conflict_reasons' = conflict_reasons
        /\ courses' = courses
        /\ Len(exported') = Len(exported) + 1

\* C14: export_by_student_group groups every scheduled session under its
\* course's student key exactly once and orders each group by (weekday
\* index Monday..Friday, start time); a second call on the same final
\* schedule returns the same output, and no call changes the schedule.
C14_Export ==
    /\ [](\A n \in 1..Len(exported) :
            GroupedAndOrdered(exported[n]) /\ exported[n] = exported[1])
    /\ [][ExportFrame]_vars

\* two calls were made on a schedule with two student groups, one of which
\* holds three sessions in an order other than the schedule's
C14_Witness ==
    /\ Len(exported) = 2
    /\ Cardinality(DOMAIN exported[2]) >= 2
    /\ \E key \in DOMAIN exported[2] :
        /\ Len(exported[2][key]) >= 3
        /\ \E p, q \in 1..Len(exported[2][key]) :
            p < q /\ SessionOf(exported[2][key][p]) > SessionOf(exported[2][key][q])

(***************************************************************************)
(* Independence of the semester halves                                     *)
(***************************************************************************)
\* session i holds the slot of the last checker call in the half of the
\* call's course
HoldsCallSlot(i) ==
    /\ schedule[i].course.semester_half = call.course.semester_half
    /\ SlotEq(schedule[i].time_slot, call.time_slot)

\* C15: the checker never answers "Faculty busy" or "Students busy"
\* because of a slot recorded under the other semester_half: whenever the
\* last call returned one of them, a session of the same half, of the same
\* faculty or the same student key, holds that slot.
C15_HalvesIndependent ==
    /\ ret.reason = "Faculty busy" =>
        \E i \in Sessions :
            /\ schedule[i].faculty_name = call.course.faculty_name
            /\ HoldsCallSlot(i)
    /\ ret.reason = "Students busy" =>
        \E i \in Sessions :
            /\ get_student_key(schedule[i].course) = get_student_key(call.course)
            /\ HoldsCallSlot(i)

\* the checker accepted a slot that a session of the same faculty and the
\* same student key already held in the other half, so faculty and cohort
\* now hold it once in each half
C15_Witness ==
    /\ ret.valid
    /\ \E i, j \in Sessions :
        /\ i < j
        /\ j = Len(schedule)
        /\ schedule[j].course = call.course
        /\ SlotEq(schedule[j].time_slot, call.time_slot)
        /\ SameSlot(i, j)
        /\ schedule[i].faculty_name = schedule[j].faculty_name
        /\ get_student_key(schedule[i].course) = get_student_key(schedule[j].course)
        /\ schedule[i].course.semester_half # schedule[j].course.semester_half

(***************************************************************************)
(* Order of the checks                                                     *)
(***************************************************************************)
\* The six checks for candidate c against the scheduled sessions: TRUE
\* when the check fails.
Fails(n, c) ==
    LET today == DaySessions(c.course.course_id, c.time_slot.day)
        holders == {i \in Sessions : SlotEq(schedule[i].time_slot, c.time_slot)}
    IN  CASE n = 1 -> \E i \in holders :
                        /\ schedule[i].faculty_name = c.course.faculty_name
                        /\ schedule[i].course.semester_half = c.course.semester_half
          [] n = 2 -> \E i \in holders :
                        schedule[i].room.room_id = c.room.room_id
          [] n = 3 -> \E i \in holders :
                        /\ get_student_key(schedule[i].course)
                            = get_student_key(c.course)
                        /\ schedule[i].course.semester_half = c.course.semester_half
          [] n = 4 -> Cardinality(today) >= 2
          [] n = 5 -> /\ Cardinality(today) = 1
                      /\ \E i \in today :
                          \/ schedule[i].session_type = c.session_type
                          \/ /\ schedule[i].session_type \in Theory
                             /\ c.session_type \in Theory
          [] n = 6 -> c.time_slot.duration_hours
                          # CanonicalDuration(c.session_type)

Failing(c) == {n \in 1..6 : Fails(n, c)}

\* the check a returned reason belongs to
CheckOfReason(reason) ==
    CASE reason = "Faculty busy" -> 1
      [] reason = "Room occupied" -> 2
      [] reason = "Students busy" -> 3
      [] reason = "Course already has 2 sessions today" -> 4
      [] reason \in {"Already has a practical today",
                     "Already has a lecture today",
                     "Already has a tutorial today",
                     "Already has a theory session today"} -> 5
      [] reason = "Wrong duration" -> 6
      [] OTHER -> 0

\* the check a key of conflict_reasons belongs to
CheckOfCounter(key) ==
    CASE key = "Faculty busy" -> 1
      [] key = "Room occupied" -> 2
      [] key = "Students busy" -> 3
      [] key = "Max 2 sessions/day exceeded" -> 4
      [] key \in {"Two practicals same day", "Two lectures same day",
                  "Two tutorials same day", "Lecture+Tutorial same day"} -> 5
      [] key = "Wrong duration" -> 6
      [] OTHER -> 0

\* the keys whose count changes in the step
Incremented ==
    {key \in DOMAIN conflict_reasons' :
        Count(conflict_reasons', key) # Count(conflict_reasons, key)}

\* a step that calls the checker: its result is that of the earliest
\* failing check of the candidate in the occupancy before the call
FirstFailingReported ==
    LET failing == Failing(call')
    IN  /\ ret'.valid <=> failing = {}
        /\ DOMAIN conflict_reasons \subseteq DOMAIN conflict_reasons'
        /\ IF failing = {}
           THEN ret'.reason = "OK" /\ Incremented = {}
           ELSE LET first == CHOOSE n \in failing : \A m \in failing : n <= m
                IN  /\ CheckOfReason(ret'.reason) = first
                    /\ Cardinality(Incremented) = 1
                    /\ \A key \in Incremented :
                        /\ CheckOfCounter(key) = first
                        /\ Count(conflict_reasons', key)
                            = Count(conflict_reasons, key) + 1

\* C16: the checker reports only the first failing check in the order
\* faculty busy, room occupied, students busy, daily cap of 2, same-day
\* type collision, wrong duration: in every call, the returned reason and
\* the one counter incremented belong to the earliest failing check, and
\* the call accepts exactly when no check fails.
C16_FirstFailingCheck ==
    [][(pc = "scan" \/ pc' = "checked") => FirstFailingReported]_vars

\* a call rejected for the room although the students are busy too and
\* the duration is wrong
C16_Witness ==
    /\ pc = "checked"
    /\ ret.reason = "Room occupied"
    /\ {3, 6} \subseteq Failing(call)

\* a call rejected for the daily cap although the duration is wrong
C16_CapWitness ==
    /\ pc = "checked"
    /\ ret.reason = "Course already has 2 sessions today"
    /\ 6 \in Failing(call)

\* a call rejected for a same-day collision although the duration is wrong
C16_CollisionWitness ==
    /\ pc = "checked"
    /\ CheckOfReason(ret.reason) = 5
    /\ 6 \in Failing(call)

(***************************************************************************)
(* Rooms                                                                   *)
(***************************************************************************)
LabLike(r) == StartsWithL(r.room_id) \/ ContainsLAB(Upper(r.room_id))

Big(r) == r.capacity >= 100

\* room a is tried before room b for a lecture or a tutorial: big before
\* regular, larger before smaller
TriedBefore(a, b) ==
    \/ Big(a) /\ ~Big(b)
    \/ (Big(a) <=> Big(b)) /\ a.capacity >= b.capacity

\* C17: every scheduled session is in a room whose capacity is at least
\* the course's num_students; a practical is in a room of the labs list, a
\* lecture or tutorial in a room of big_rooms or regular_rooms; for a
\* lecture or tutorial the big rooms are tried before the regular rooms
\* and each class in descending capacity.
C17_RoomSuitability ==
    /\ \A i \in Sessions :
        /\ schedule[i].room.capacity >= schedule[i].course.num_students
        /\ InList(rooms, schedule[i].room)
        /\ schedule[i].session_type = PRACTICAL =>
            (InList(labs, schedule[i].room) /\ LabLike(schedule[i].room))
        /\ schedule[i].session_type \in Theory =>
            /\ InList(big_rooms, schedule[i].room)
                \/ InList(regular_rooms, schedule[i].room)
            /\ Big(schedule[i].room) \/ ~StartsWithL(schedule[i].room.room_id)
    /\ (pc = "scan" /\ session_type \in Theory) =>
        /\ \A p, q \in 1..Len(suitable_rooms) :
            p < q => TriedBefore(suitable_rooms[p], suitable_rooms[q])
        /\ \A k \in 1..Len(rooms) :
            (/\ rooms[k].capacity >= course.num_students
             /\ Big(rooms[k]) \/ ~StartsWithL(rooms[k].room_id))
                => InList(suitable_rooms, rooms[k])
        /\ ri > 1 => call.room = suitable_rooms[ri - 1]

\* a finished run with a practical in a lab and a lecture in a big room,
\* where a room of the input is too small for the course
C17_Witness ==
    /\ pc = "done"
    /\ \E i, j \in Sessions :
        /\ schedule[i].session_type = PRACTICAL
        /\ schedule[j].session_type = LECTURE
        /\ Big(schedule[j].room)
        /\ \E k \in 1..Len(rooms) :
            rooms[k].capacity < schedule[j].course.num_students

\* a scan for a lecture over two big rooms of different capacities and
\* two regular rooms of different capacities
C17_OrderWitness ==
    /\ pc = "scan"
    /\ session_type = LECTURE
    /\ \E p, q, u, v \in 1..Len(suitable_rooms) :
        /\ p < q /\ q < u /\ u < v
        /\ suitable_rooms[p].capacity > suitable_rooms[q].capacity
        /\ Big(suitable_rooms[q])
        /\ ~Big(suitable_rooms[u])
        /\ suitable_rooms[u].capacity > suitable_rooms[v].capacity

(***************************************************************************)
(* No suitable room                                                        *)
(***************************************************************************)
\* room r can hold a session of type stype of course c
Suits(r, c, stype) ==
    /\ r.capacity >= c.num_students
    /\ IF stype = PRACTICAL THEN LabLike(r)
       ELSE Big(r) \/ ~StartsWithL(r.room_id)

\* the sessions the loops of generate_timetable attempt, as positions
\* (course in processing order, type, number)
RequiredAttempts ==
    UNION { {<<x, t, n>> : n \in 1..sessions_needed(sorted_courses[x])[t][2]} :
            x \in 1..Len(sorted_courses), t \in 1..3 }

\* the attempts after the current one
LaterAttempts == {a \in RequiredAttempts : TupleLess(Attempt, a, 1)}

\* the loops move to the next required session, or are over
MovesToNextAttempt ==
    /\ pc' = "session"
    /\ IF LaterAttempts = {}
       THEN ci' = Len(sorted_courses) + 1
       ELSE /\ Attempt' \in LaterAttempts
            /\ \A a \in LaterAttempts : ~TupleLess(a, Attempt', 1)

\* the step of a session that has no suitable room
NoSuitableRoomStep ==
    (/\ pc = "session"
     /\ ci <= Len(sorted_courses)
     /\ \A k \in 1..Len(rooms) : ~Suits(rooms[k], course, session_type))
    => /\ DOMAIN conflict_reasons' = DOMAIN conflict_reasons \cup {"No suitable room"}
       /\ \A key \in DOMAIN conflict_reasons' :
            Count(conflict_reasons', key)
                = Count(conflict_reasons, key)
                  + IF key = "No suitable room" THEN 1 ELSE 0
       /\ ret' = ret
       /\ call' = call
       /\ schedule' = schedule
       /\ occupancy' = occupancy
       /\ Len(conflicts') = Len(conflicts) + 1
       /\ SubSeq(conflicts', 1, Len(conflicts)) = conflicts
       /\ conflicts'[Len(conflicts')].course_code = course.course_code
       /\ conflicts'[Len(conflicts')].session_type = session_type
       /\ conflicts'[Len(conflicts')].session_num = session_num
       /\ MovesToNextAttempt

\* C18: a session with no suitable room fails at once: the "No suitable
\* room" counter grows by exactly one, the checker is not called, nothing
\* is added to the schedule or the occupancy, exactly one conflict entry is
\* recorded, and the run continues with the next session.
C18_NoSuitableRoom == [][NoSuitableRoomStep]_vars

\* a finished run whose only conflicts are sessions without a suitable
\* room, the first a lecture, and in which a later practical of the same
\* course was placed
C18_Witness ==
    /\ pc = "done"
    /\ conflicts # <<>>
    /\ Count(conflict_reasons, "No suitable room") = Len(conflicts)
    /\ conflicts[1].session_type = LECTURE
    /\ \E i \in Sessions :
        /\ schedule[i].session_type = PRACTICAL
        /\ schedule[i].course.course_code = conflicts[1].course_code

(***************************************************************************)
(* Frame of the occupancy                                                  *)
(***************************************************************************)
\* dict d2 is dict d with v appended to the list of key k and every other
\* list as it was
AppendedAt(d, d2, k, v) ==
    \A x \in (DOMAIN d) \cup (DOMAIN d2) \cup {k} :
        Get(d2, x) = IF x = k THEN Append(Get(d, k), v) ELSE Get(d, x)

NoEntries(d) == \A x \in DOMAIN d : d[x] = <<>>

\* the step records exactly session s
CommitOf(s) ==
    LET half == s.course.semester_half
    IN  /\ schedule' = Append(schedule, s)
        /\ AppendedAt(faculty_schedule, faculty_schedule',
                      <<s.faculty_name, half>>, s.time_slot)
        /\ AppendedAt(room_schedule, room_schedule',
                      <<s.room.room_id, half>>, s.time_slot)
        /\ AppendedAt(student_schedule, student_schedule',
                      <<get_student_key(s.course), half>>, s.time_slot)
        /\ AppendedAt(course_daily_schedule, course_daily_schedule',
                      <<s.course.course_id, s.time_slot.day>>, s.session_type)

OccupancyFrame ==
    /\ pc = "start" =>
        /\ schedule = <<>>
        /\ NoEntries(faculty_schedule)
        /\ NoEntries(room_schedule)
        /\ NoEntries(student_schedule)
        /\ NoEntries(course_daily_schedule)
    /\ \/ schedule' = schedule /\ occupancy' = occupancy
       \/ /\ pc = "scan"
          /\ ret'.valid
          /\ conflicts' = conflicts
          /\ Len(schedule') = Len(schedule) + 1
          /\ schedule'[Len(schedule')].course = course
          /\ schedule'[Len(schedule')].session_type = session_type
          /\ schedule'[Len(schedule')].session_number = session_num
          /\ schedule'[Len(schedule')].faculty_name = course.faculty_name
          /\ schedule'[Len(schedule')].time_slot = call'.time_slot
          /\ schedule'[Len(schedule')].room = call'.room
          /\ CommitOf(schedule'[Len(schedule')])
    /\ conflicts' # conflicts =>
        (schedule' = schedule /\ occupancy' = occupancy)

\* C19: the occupancy starts empty and is append-only: the schedule and
\* the faculty, room, student and course-day lists never lose an entry and
\* change only at a commit, which adds exactly one scheduled session, that
\* session's slot to the faculty, room and student lists of its course's
\* semester_half and its type to the course-day list; a session that ends
\* as a conflict leaves schedule and occupancy unchanged.
C19_AppendOnly == [][OccupancyFrame]_vars

\* a finished run with a conflict, in which a faculty list, a room list
\* and a student list hold two entries each
C19_Witness ==
    /\ pc = "done"
    /\ conflicts # <<>>
    /\ \E k \in DOMAIN faculty_schedule : Len(faculty_schedule[k]) >= 2
    /\ \E k \in DOMAIN room_schedule : Len(room_schedule[k]) >= 2
    /\ \E k \in DOMAIN student_schedule : Len(student_schedule[k]) >= 2

\* a finished run in which a course-day list holds two entries
C19_CourseDayWitness ==
    /\ pc = "done"
    /\ \E k \in DOMAIN course_daily_schedule :
        Len(course_daily_schedule[k]) >= 2

(***************************************************************************)
(* The duration check                                                      *)
(***************************************************************************)
\* C20: the duration check of the checker never fails during
\* generate_timetable: the slots offered to a session are catalog slots of
\* the required duration of its type, no call returns "Wrong duration", and
\* the "Wrong duration" counter stays 0.
C20_NoWrongDuration ==
    /\ Count(conflict_reasons, "Wrong duration") = 0
    /\ ret.reason # "Wrong duration"
    /\ pc = "scan" =>
        /\ si \in 1..Len(available_slots)
        /\ SlotIn(available_slots[si], time_slots)
        /\ available_slots[si].duration_hours = CanonicalDuration(session_type)
    /\ ret.reason # "" =>
        call.time_slot.duration_hours = CanonicalDuration(call.session_type)

\* a finished run that placed a lecture, a tutorial and a practical and in
\* which the checker rejected a candidate
C20_Witness ==
    /\ pc = "done"
    /\ \A stype \in SessionType :
        \E i \in Sessions : schedule[i].session_type = stype
    /\ \E key \in DOMAIN conflict_reasons :
        CheckOfCounter(key) # 0 /\ conflict_reasons[key] > 0

(***************************************************************************)
(* Sessions per day and per week                                           *)
(***************************************************************************)
\* the placed sessions of course x whose type is in types
PlacedOf(x, types) ==
    {i \in Sessions : /\ schedule[i].course.course_id = courses[x].course_id
                      /\ schedule[i].session_type \in types}

\* the catalog days
CatalogDays == {time_slots[s].day : s \in 1..Len(time_slots)}

\* C21: on any day a course holds at most one theory session (lecture or
\* tutorial) and at most one practical, so over the 5-day catalog it never
\* has more than 5 placed lectures-plus-tutorials nor more than 5 placed
\* practicals; a course with lectures + tutorials > 5 or practicals > 5
\* ends with at least one conflict entry, even with every room, faculty
\* and student slot free.
C21_WeeklyLimit ==
    /\ Cardinality(CatalogDays) = 5
    /\ \A x \in 1..Len(courses) :
        /\ \A types \in {Theory, {PRACTICAL}} :
            /\ \A i, j \in PlacedOf(x, types) :
                i # j => schedule[i].time_slot.day # schedule[j].time_slot.day
            /\ \A i \in PlacedOf(x, types) :
                schedule[i].time_slot.day \in CatalogDays
            /\ Cardinality(PlacedOf(x, types)) <= 5
        /\ (/\ pc = "done"
            /\ \/ courses[x].lectures + courses[x].tutorials > 5
               \/ courses[x].practicals > 5)
            => \E k \in 1..Len(conflicts) :
                conflicts[k].course_code = courses[x].course_code

\* a finished run of a single course with 3 lectures, 3 tutorials and 6
\* practicals: five theory sessions and five practicals were placed, and
\* one tutorial and one practical ended as conflicts
C21_Witness ==
    /\ pc = "done"
    /\ Len(courses) = 1
    /\ courses[1].lectures = 3
    /\ courses[1].tutorials = 3
    /\ courses[1].practicals = 6
    /\ Cardinality(PlacedOf(1, Theory)) = 5
    /\ Cardinality(PlacedOf(1, {PRACTICAL})) = 5
    /\ Len(conflicts) = 2
    /\ conflicts[1].session_type = TUTORIAL
    /\ conflicts[2].session_type = PRACTICAL

\* a finished run of a single course with 5 lectures and 5 practicals, all
\* placed
C21_FullWeekWitness ==
    /\ pc = "done"
    /\ courses[1].lectures = 5
    /\ courses[1].practicals = 5
    /\ Len(schedule) = 10
    /\ conflicts = <<>>

====
